---- MODULE Spec2Model ----
(***************************************************************************)
(* Token, session, lockout and rate-limit state of the AI code review      *)
(* assistant: the user service's AuthController / UserController and auth  *)
(* middlewares, and the API gateway's token blacklist and RedisStore.      *)
(*                                                                         *)
(* Time is the wall clock in milliseconds (Date.now()); JWT claims iat/exp *)
(* and Redis TTL arguments are in seconds, as in the code.  A Redis key    *)
(* with an expiry carries the instant it was set and its TTL; Tick removes *)
(* the keys whose time has come.                                           *)
(*                                                                         *)
(* Each handler is one atomic action (requests one after another), except *)
(* in the interleaved specifications.  The specifications are:           *)
(*   Spec              the token / session lifecycle of AuthController     *)
(*   SpecRevocation    logout at the user service and at the gateway       *)
(*   SpecUser          UserController's credential changes                 *)
(*   SpecLock          the failed-attempt guard of POST /auth/login        *)
(*   SpecLimiter       the route limiters, counter store answering         *)
(*   SpecLimiterFaulty the route limiters, EXPIRE calls may fail           *)
(*   SpecStore         the token verifiers, Redis client in any state      *)
(*   SpecLimiterStore  the route limiters, Redis client in any state       *)
(*   SpecLockInterleaved  login requests interleaved between the guard     *)
(*                     and the handler                                     *)
(*   SpecLockFrame     every outcome of POST /auth/login                   *)
(*   SpecRoutes        middleware order of limited, authenticated routes   *)
(*   SpecRefresh       POST /auth/refresh                                  *)
(*   SpecVerifier      the check order of authenticateToken                *)
(*   SpecLimiterInterleaved  limited requests interleaved between the      *)
(*                     limiter's GET and its INCR                          *)
(*   SpecRefreshInterleaved  refresh and logout interleaved at the awaits  *)
(*   SpecSessions      DELETE /users/sessions/:sessionId                   *)
(*   SpecNotify        the notification service's WebSocket clients map    *)
(* All but the limiter specifications and SpecRoutes take the requests     *)
(* that the route limiters admitted.                                       *)
(***************************************************************************)
EXTENDS Integers, FiniteSets, Sequences, TLC

\* ---------------------------------------------------------------- bounds
MaxTicks == 2
MaxIssued == 2
GwMax == 3                    \* RATE_LIMIT_MAX_REQUESTS of the gateway
MaxInflight == 2              \* requests in flight at once
MaxSockets == 2               \* WebSocket connections ever accepted
MaxNotifications == 2         \* notifications ever created

\* ------------------------------------------------------------- constants
Users == {"u1", "u2"}
Passwords == {"p1", "p2"}          \* passwords validatePasswordStrength accepts
Weak == "weak"                      \* one it rejects
Ips == {"ip1"}

None == -1                    \* null / absent
MsPerSec == 1000
H24 == 24 * 60 * 60           \* "24h", 24 * 60 * 60
D7 == 7 * 24 * 60 * 60        \* "7d", 7 * 24 * 60 * 60
D30 == 30 * 24 * 60 * 60
ResetTtl == 10 * 60           \* password_reset:<hash> TTL
Steps == {MsPerSec, H24 * MsPerSec}       \* clock steps of Spec
StepsUser == {1, H24 * MsPerSec}          \* clock steps of SpecUser

NoTok == [kind |-> "none", uid |-> "none", iat |-> 0, exp |-> 0]
NoHash == <<"reset", "none", 0>>
NoKey == [val |-> NoTok, setAt |-> 0, ttl |-> None]
NoUser == [exists |-> FALSE, active |-> FALSE, deleted |-> FALSE,
           pwd |-> "p1", pca |-> None, resetHash |-> NoHash,
           resetExpires |-> None]
NoResp == [op |-> "none", uid |-> "none", status |-> 0, code |-> "none"]
NoCount == [n |-> 0, setAt |-> 0, ttl |-> None]
LockoutTtl == 15 * 60         \* redisClient.expire(key, 15 * 60)
\* clock steps of SpecLock: one ms short of the lockout window, and the window
StepsLock == {LockoutTtl * MsPerSec - 1, LockoutTtl * MsPerSec}
NoStreak == [n |-> 0, last |-> 0, ended |-> 0]
NoSeen == [start |-> 0, n |-> 0]
\* the Redis client: ready, not connected (isReady false), or connected with
\* the call failing
StoreModes == {"ready", "notReady", "throws"}
\* clock steps of the limiter specifications: a minute, and the 15-minute
\* window of the gateway and of PUT /users/password
StepsLimiter == {60 * MsPerSec, 15 * 60 * MsPerSec}
\* clock steps of SpecVerifier: a second, and one second short of a day
StepsVerifier == {MsPerSec, (H24 - 1) * MsPerSec}
\* clock steps of SpecRefresh: a day, and the 7 days of a refresh token
StepsRefresh == {H24 * MsPerSec, D7 * MsPerSec}

VARIABLES
  now,        \* Date.now(), ms
  nticks,     \* number of clock steps taken
  db,         \* users table: id -> row
  refreshKeys,\* Redis refresh_token:<id>   -> [val, exp]
  blacklist,  \* Redis blacklisted_token:<token> (user service): set of entries
  gwBlacklist,\* Redis ai-review:blacklist:<token> (gateway): set of entries
  sessions,   \* Redis session:<sha256(token)>: set of entries
  resetKeys,  \* Redis password_reset:<hash>: set of entries
  issuedA,    \* access tokens handed to clients, with the ms of issue
  issuedR,    \* refresh tokens handed to clients
  loggedOut,  \* access tokens a user-service logout has blacklisted
  failedUser, \* Redis failed_attempts:user:<id> -> [n, exp]  (n = 0: no key)
  failedIp,   \* Redis failed_attempts:ip:<ip>   -> [n, exp]
  streak,     \* history: per identity, the run of password mismatches, each
              \* within the lockout window of the one before
  rl,         \* Redis ratelimit:<client>:<windowStart> (user service): entries
  gwrl,       \* Redis general:<client> (gateway RedisStore): [n, exp]
  seen,       \* history: per limiter, the requests of the current window
  redisClient, \* the Redis connection as the handlers find it
  inflight,   \* requests between two of their steps
  wss,        \* notification service: the server's sockets, each with its
              \* readyState and the userId its last auth message set
  clients,    \* notification service: WebSocketService.clients, userId -> socket
  notifications, \* notification service: rows of the notifications table
  channel,    \* Redis channel 'notifications': messages published and not
              \* yet handed to the subscriber
  sent,       \* history: per notification, the ws.send calls that carried it
  resp        \* the last response sent

authVars == <<db, refreshKeys, blacklist, gwBlacklist, sessions, resetKeys,
              issuedA, issuedR, loggedOut>>
lockVars == <<failedUser, failedIp, streak>>
limVars == <<rl, gwrl, seen>>
wsVars == <<wss, clients, notifications, channel, sent>>
vars == <<now, nticks, authVars, lockVars, limVars, redisClient, inflight,
          wsVars, resp>>

NowSec == now \div MsPerSec   \* Math.floor(Date.now() / 1000)

\* ---------------------------------------------------------------- tokens
\* jwt.sign(payload, secret, {expiresIn}): iat = now in seconds, exp = iat + ttl.
\* The token is a function of its claims: two tokens signed for the same
\* identity in the same second with the same lifetime are the same string.
GenerateJWT(u, ttl) == [kind |-> "access", uid |-> u, iat |-> NowSec,
                        exp |-> NowSec + ttl]
GenerateRefreshToken(u) == [kind |-> "refresh", uid |-> u, iat |-> NowSec,
                            exp |-> NowSec + D7]

\* jwt.verify: TokenExpiredError once the clock (seconds) reaches exp
JwtExpired(t) == NowSec >= t.exp

\* crypto.createHash("sha256").update(token).digest("hex"): one-way, so the
\* session key is a value distinct from the token that determines it
Sha256(t) == <<"sha256", t.uid, t.iat, t.exp>>

\* ------------------------------------------------------------ Redis keys
\* a key set at setAt with a TTL of ttl seconds is there at instant t as long
\* as fewer than ttl * 1000 ms have passed (ttl = None: no expiry)
LiveAt(e, t) == e.ttl = None \/ (t - e.setAt) \div MsPerSec < e.ttl
Live(e) == LiveAt(e, now)
\* SETEX key ttl value at the current instant
Entry(k, ttl, v) == [key |-> k, val |-> v, setAt |-> now, ttl |-> ttl]
\* SET / SETEX overwrite the key
Put(store, e) == {x \in store : x.key # e.key} \cup {e}
Get(store, k) == {x \in store : x.key = k /\ Live(x)}
Has(store, k) == Get(store, k) # {}
Del(store, k) == {x \in store : x.key # k}

\* ------------------------------------------------------------ responses
Resp(op, u, status, code) == [op |-> op, uid |-> u, status |-> status,
                              code |-> code]

\* ------------------------------------------------- verifier (user service)
\* authenticateToken: the checks in the order of the code, first failure wins
AuthenticateTokenExpiryFirst(t) ==
  IF JwtExpired(t) THEN "TOKEN_EXPIRED"
  ELSE IF Has(blacklist, t) THEN "TOKEN_REVOKED"
  ELSE IF ~db[t.uid].exists THEN "USER_NOT_FOUND"
  ELSE IF ~db[t.uid].active THEN "ACCOUNT_DISABLED"
  ELSE IF /\ db[t.uid].pca # None
          /\ t.iat < db[t.uid].pca \div MsPerSec THEN "PASSWORD_CHANGED"
  ELSE "OK"
AuthenticateToken(t) ==
  IF Has(blacklist, t) THEN "TOKEN_REVOKED"
  ELSE IF JwtExpired(t) THEN "TOKEN_EXPIRED"
  ELSE IF ~db[t.uid].exists THEN "USER_NOT_FOUND"
  ELSE IF ~db[t.uid].active THEN "ACCOUNT_DISABLED"
  ELSE IF /\ db[t.uid].pca # None
          /\ t.iat < db[t.uid].pca \div MsPerSec THEN "PASSWORD_CHANGED"
  ELSE "OK"

AuthStatus(code) == IF code = "OK" THEN 200
                    ELSE IF code = "ACCOUNT_DISABLED" THEN 403 ELSE 401

\* User.findByEmail: the row whose email is the submitted one; a deleted
\* account's email was rewritten to deleted_<ts>_<email>
FindByEmail(u) == db[u].exists /\ ~db[u].deleted

\* ------------------------------------------------ session registry helpers
\* createSession: session:<sha256(token)> with EX 24h
CreateSession(store, u, tok) == Put(store, Entry(Sha256(tok), H24, u))

\* removeUserSessions / the scan of invalidateAllUserSessions: KEYS session:*,
\* GET each, DEL those whose user_id is the identity
RemoveUserSessionsNoMatch(store, u) == store
RemoveUserSessions(store, u) == {x \in store : ~(Live(x) /\ x.val = u)}

\* ------------------------------------------------- failed-attempt counters
LiveCount(c) == IF c.n > 0 /\ Live(c) THEN c.n ELSE 0
\* INCR key: creates the key without expiry, or adds one keeping the expiry
Incr(c) == IF LiveCount(c) = 0 THEN [n |-> 1, setAt |-> now, ttl |-> None]
           ELSE [c EXCEPT !.n = c.n + 1]
\* EXPIRE key seconds
Expire(c, ttl) == IF c.n > 0 THEN [c EXCEPT !.setAt = now, !.ttl = ttl]
                  ELSE c
IncrementFailedAttemptsNoExpire(c) == Incr(c)
\* incrementFailedAttempts: INCR then EXPIRE 15 min, for both keys
IncrementFailedAttempts(c) == Expire(Incr(c), LockoutTtl)

\* checkFailedAttempts: the guard in front of POST /auth/login
MaxUserAttempts == 5
MaxIpAttempts == 10
CheckFailedAttemptsAbove(u, ip) ==
  LET userAttempts == IF FindByEmail(u) THEN LiveCount(failedUser[u]) ELSE 0
      ipAttempts == LiveCount(failedIp[ip])
  IN IF userAttempts > MaxUserAttempts THEN "ACCOUNT_LOCKED"
     ELSE IF ipAttempts > MaxIpAttempts THEN "IP_BLOCKED"
     ELSE "next"
CheckFailedAttempts(u, ip) ==
  LET userAttempts == IF FindByEmail(u) THEN LiveCount(failedUser[u]) ELSE 0
      ipAttempts == LiveCount(failedIp[ip])
  IN IF userAttempts >= MaxUserAttempts THEN "ACCOUNT_LOCKED"
     ELSE IF ipAttempts >= MaxIpAttempts THEN "IP_BLOCKED"
     ELSE "next"

\* ---------------------------------------------- limiters (user service)
\* two routes of routes/users.js behind authenticateToken and rateLimiter:
\* PUT /users/password (15 min, max 3), DELETE /users/account (1 h, max 1)
Routes == {"password", "account"}
WindowMs(route) == IF route = "password" THEN 15 * 60 * 1000
                   ELSE 60 * 60 * 1000
Max(route) == IF route = "password" THEN 3 ELSE 1
\* Math.ceil(windowMs / 1000)
CeilSec(ms) == (ms + MsPerSec - 1) \div MsPerSec
\* windowStart = Math.floor(Date.now() / windowMs) * windowMs
WindowStart(route) == (now \div WindowMs(route)) * WindowMs(route)
\* redisKey = `ratelimit:${keyGenerator(req)}:${windowStart}`
RedisKey(u, route) == <<"ratelimit", u, WindowStart(route)>>
\* requests = parseInt(GET redisKey) or 0
Requests(k) == IF Has(rl, k) THEN (CHOOSE x \in Get(rl, k) : TRUE).val ELSE 0
\* the finish handler: INCR redisKey, then EXPIRE redisKey ceil(windowMs/1000);
\* when EXPIRE fails the key keeps what INCR left
Finish(k, windowMs, expireOk) ==
  LET incr == IF Has(rl, k)
              THEN [(CHOOSE x \in Get(rl, k) : TRUE) EXCEPT !.val = @ + 1]
              ELSE [key |-> k, val |-> 1, setAt |-> now, ttl |-> None]
  IN Put(rl, IF expireOk
             THEN [incr EXCEPT !.setAt = now, !.ttl = CeilSec(windowMs)]
             ELSE incr)

\* -------------------------------------------------- limiters (gateway)
\* generalLimiter: config.rateLimiting.windowMs (RATE_LIMIT_WINDOW minutes, or
\* 15) and config.rateLimiting.maxRequests (RATE_LIMIT_MAX_REQUESTS, set to
\* GwMax here), store RedisStore("general:")
GwWindowMs == 15 * 60 * 1000
GwCap == GwMax + 2            \* the model stops counting there
\* RedisStore.increment: INCR; if the result is 1, EXPIRE; a failing EXPIRE
\* is caught and leaves the key as INCR made it
RedisStoreIncrement(c, expireOk) ==
  IF LiveCount(c) = 0 /\ expireOk THEN Expire(Incr(c), CeilSec(GwWindowMs))
  ELSE Incr(c)
\* totalHits as returned: the INCR result, or 1 from the catch block, which
\* can only be entered by the EXPIRE of the first hit
TotalHits(c) == c.n
\* express-rate-limit: the request is rejected when totalHits exceeds max
Admits(totalHits, max) == totalHits <= max

Limiters == Routes \cup {"general"}
LimMax(l) == IF l = "general" THEN GwMax ELSE Max(l)

\* ------------------------------------------------------------------ Init
\* the notification service's sockets and its initial state
Socks == 1..MaxSockets
NoSock == 0
NoUid == "none"
NoSocket == [readyState |-> "NONE", userId |-> NoUid]

\* new WebSocketService(), initialize(server) done: no connection yet, the
\* subscription to 'notifications' in place
InitWs ==
  /\ wss = [s \in Socks |-> NoSocket]
  /\ clients = [u \in Users |-> NoSock]
  /\ notifications = {}
  /\ channel = {}
  /\ sent = [n \in 1..MaxNotifications |-> 0]

\* the state after construction: nothing stored, nobody registered
Init ==
  /\ now = 0
  /\ nticks = 0
  /\ db = [u \in Users |-> NoUser]
  /\ refreshKeys = [u \in Users |-> NoKey]
  /\ blacklist = {}
  /\ gwBlacklist = {}
  /\ sessions = {}
  /\ resetKeys = {}
  /\ issuedA = {}
  /\ issuedR = {}
  /\ loggedOut = {}
  /\ failedUser = [u \in Users |-> NoCount]
  /\ failedIp = [i \in Ips |-> NoCount]
  /\ streak = [u \in Users |-> NoStreak]
  /\ rl = {}
  /\ gwrl = NoCount
  /\ seen = [l \in Limiters |-> NoSeen]
  /\ redisClient = "ready"
  /\ inflight = {}
  /\ InitWs
  /\ resp = NoResp

\* ----------------------------------------------------------------- clock
PurgeSet(store, t) == {x \in store : LiveAt(x, t)}
PurgeKey(k, t) == IF LiveAt(k, t) THEN k ELSE NoKey
PurgeCount(c, t) == IF LiveAt(c, t) THEN c ELSE NoCount

\* the clock advances by d ms; Redis drops the keys whose expiry has come
Tick(d) ==
  /\ nticks < MaxTicks
  /\ nticks' = nticks + 1
  /\ now' = now + d
  /\ refreshKeys' = [u \in Users |-> PurgeKey(refreshKeys[u], now + d)]
  /\ blacklist' = PurgeSet(blacklist, now + d)
  /\ gwBlacklist' = PurgeSet(gwBlacklist, now + d)
  /\ sessions' = PurgeSet(sessions, now + d)
  /\ resetKeys' = PurgeSet(resetKeys, now + d)
  /\ failedUser' = [u \in Users |-> PurgeCount(failedUser[u], now + d)]
  /\ failedIp' = [i \in Ips |-> PurgeCount(failedIp[i], now + d)]
  /\ rl' = PurgeSet(rl, now + d)
  /\ gwrl' = PurgeCount(gwrl, now + d)
  /\ UNCHANGED <<db, issuedA, issuedR, loggedOut, streak, seen, redisClient,
                 inflight, wsVars, resp>>

\* --------------------------------------------------------- token hand-out
\* the model hands out at most MaxIssued access tokens
CanIssue == Cardinality(issuedA) < MaxIssued
Hand(tok) == [tok |-> tok, at |-> now]
\* requests in flight are told apart by a number
FreeIds == {i \in 1..MaxInflight : \A q \in inflight : q.id # i}
Tokens == {h.tok : h \in issuedA}
\* SET refresh_token:<id> value EX ttl
SetRefresh(u, rt, ttl) ==
  [refreshKeys EXCEPT ![u] = [val |-> rt, setAt |-> now, ttl |-> ttl]]

\* ------------------------------------------------- POST /auth/register
Register(u, pw) ==
  /\ IF db[u].exists /\ ~db[u].deleted
     THEN /\ resp' = Resp("register", u, 409, "USER_EXISTS")
          /\ UNCHANGED <<authVars>>
     ELSE LET tok == GenerateJWT(u, H24)
              rt == GenerateRefreshToken(u)
          IN /\ ~db[u].exists
             /\ CanIssue
             /\ db' = [db EXCEPT ![u] = [NoUser EXCEPT !.exists = TRUE,
                                           !.active = TRUE, !.pwd = pw]]
             /\ refreshKeys' = SetRefresh(u, rt, D7)
             /\ issuedA' = issuedA \cup {Hand(tok)}
             /\ issuedR' = issuedR \cup {rt}
             /\ resp' = Resp("register", u, 201, "OK")
             /\ UNCHANGED <<blacklist, gwBlacklist, sessions, resetKeys,
                            loggedOut>>
  /\ UNCHANGED <<wsVars, now, nticks, lockVars, limVars, redisClient, inflight>>

\* the run of mismatches of an identity: a mismatch continues the run if it
\* comes within the lockout window of the previous one, a success ends it
Mismatch(h) ==
  [h EXCEPT !.n = IF h.n > 0 /\ now - h.last < LockoutTtl * MsPerSec
                  THEN h.n + 1 ELSE 1,
            !.last = now]
Success(h) == [n |-> 0, last |-> h.last, ended |-> h.n]

\* ---------------------------------------------------- POST /auth/login
ResetFailedAttemptsKeeps(c) == c
\* resetFailedAttempts: DEL key
ResetFailedAttempts(c) == NoCount

\* AuthController.login, the handler behind the guard
LoginHandler(u, pw, rememberMe, ip) ==
     IF ~FindByEmail(u)
     THEN /\ resp' = Resp("login", u, 401, "USER_NOT_FOUND")
          /\ UNCHANGED <<authVars, lockVars>>
     ELSE IF ~db[u].active
     THEN /\ resp' = Resp("login", u, 403, "ACCOUNT_DISABLED")
          /\ UNCHANGED <<authVars, lockVars>>
     ELSE IF pw # db[u].pwd
     THEN /\ failedUser' = [failedUser EXCEPT
                              ![u] = IncrementFailedAttempts(failedUser[u])]
          /\ failedIp' = [failedIp EXCEPT
                              ![ip] = IncrementFailedAttempts(failedIp[ip])]
          /\ streak' = [streak EXCEPT ![u] = Mismatch(streak[u])]
          /\ resp' = Resp("login", u, 401, "INCORRECT_PASSWORD")
          /\ UNCHANGED <<authVars>>
     ELSE LET tok == GenerateJWT(u, IF rememberMe THEN D7 ELSE H24)
              rt == GenerateRefreshToken(u)
          IN /\ CanIssue
             /\ failedUser' = [failedUser EXCEPT
                                 ![u] = ResetFailedAttempts(failedUser[u])]
             /\ failedIp' = [failedIp EXCEPT
                                 ![ip] = ResetFailedAttempts(failedIp[ip])]
             /\ streak' = [streak EXCEPT ![u] = Success(streak[u])]
             /\ refreshKeys' = SetRefresh(u, rt, IF rememberMe THEN D30 ELSE D7)
             /\ sessions' = CreateSession(sessions, u, tok)
             /\ issuedA' = issuedA \cup {Hand(tok)}
             /\ issuedR' = issuedR \cup {rt}
             /\ resp' = Resp("login", u, 200, "OK")
             /\ UNCHANGED <<db, blacklist, gwBlacklist, resetKeys, loggedOut>>

\* checkFailedAttempts, then AuthController.login
Login(u, pw, rememberMe, ip) ==
  /\ LET guard == CheckFailedAttempts(u, ip) IN
     IF guard # "next"
     THEN /\ resp' = Resp("login", u, 429, guard)
          /\ UNCHANGED <<authVars, lockVars>>
     ELSE LoginHandler(u, pw, rememberMe, ip)
  /\ UNCHANGED <<wsVars, now, nticks, limVars, redisClient, inflight>>

\* a login body with email u that loginSchema refuses (no password):
\* checkFailedAttempts, then validate(loginSchema) answers 400
LoginInvalid(u, ip) ==
  /\ resp' = IF CheckFailedAttempts(u, ip) # "next"
             THEN Resp("login", u, 429, CheckFailedAttempts(u, ip))
             ELSE Resp("login", u, 400, "VALIDATION_ERROR")
  /\ UNCHANGED <<wsVars, now, nticks, authVars, lockVars, limVars, redisClient,
                 inflight>>

\* the same request in two steps: the guard reads the counters, the handler
\* runs once its awaits (user lookup, bcrypt) have resolved, and other
\* requests are served in between
LoginGuard(u, pw, ip) ==
  /\ IF CheckFailedAttempts(u, ip) # "next"
     THEN /\ resp' = Resp("login", u, 429, CheckFailedAttempts(u, ip))
          /\ UNCHANGED inflight
     ELSE /\ FreeIds # {}
          /\ inflight' = inflight \cup
                {[op |-> "login", id |-> CHOOSE i \in FreeIds : TRUE,
                  u |-> u, pw |-> pw, ip |-> ip]}
          /\ UNCHANGED resp
  /\ UNCHANGED <<wsVars, now, nticks, authVars, lockVars, limVars, redisClient>>

LoginResume(r) ==
  /\ r \in inflight /\ r.op = "login"
  /\ LoginHandler(r.u, r.pw, FALSE, r.ip)
  /\ inflight' = inflight \ {r}
  /\ UNCHANGED <<wsVars, now, nticks, limVars, redisClient>>


\* --------------------------------------------------- POST /auth/logout
\* authenticateToken, then AuthController.logout: DEL the refresh token,
\* SETEX blacklisted_token:<token> 24h, remove the identity's sessions
BlacklistTtl == H24
Logout(t) ==
  /\ t \in Tokens
  /\ LET a == AuthenticateToken(t) IN
     IF a # "OK"
     THEN /\ resp' = Resp("logout", t.uid, AuthStatus(a), a)
          /\ UNCHANGED <<authVars>>
     ELSE /\ refreshKeys' = [refreshKeys EXCEPT ![t.uid] = NoKey]
          /\ blacklist' = Put(blacklist, Entry(t, BlacklistTtl, "true"))
          /\ sessions' = RemoveUserSessions(sessions, t.uid)
          /\ loggedOut' = loggedOut \cup {t}
          /\ resp' = Resp("logout", t.uid, 200, "OK")
          /\ UNCHANGED <<db, gwBlacklist, resetKeys, issuedA, issuedR>>
  /\ UNCHANGED <<wsVars, now, nticks, lockVars, limVars, redisClient, inflight>>

\* -------------------------------------------------- POST /auth/refresh
\* the outcome of AuthController.refreshToken for a presented refresh token
StoredMatchesAnyStored(r) == refreshKeys[r.uid].val # NoTok
StoredMatches(r) == /\ refreshKeys[r.uid].val # NoTok
                    /\ refreshKeys[r.uid].val = r
RefreshOutcomeAnyUser(r) ==
  IF JwtExpired(r) THEN 401
  ELSE IF ~StoredMatches(r) THEN 401
  ELSE 200
RefreshOutcome(r) ==
  IF JwtExpired(r) THEN 401
  ELSE IF ~StoredMatches(r) THEN 401
  ELSE IF ~db[r.uid].exists \/ ~db[r.uid].active THEN 401
  ELSE 200

Refresh(r) ==
  /\ r \in issuedR
  /\ IF RefreshOutcome(r) # 200
     THEN /\ resp' = Resp("refresh", r.uid, RefreshOutcome(r), "INVALID_REFRESH")
          /\ UNCHANGED <<authVars>>
     ELSE LET tok == GenerateJWT(r.uid, H24)
              rt == GenerateRefreshToken(r.uid)
          IN /\ CanIssue
             /\ refreshKeys' = SetRefresh(r.uid, rt, D7)
             /\ issuedA' = issuedA \cup {Hand(tok)}
             /\ issuedR' = issuedR \cup {rt}
             /\ resp' = Resp("refresh", r.uid, 200, "OK")
             /\ UNCHANGED <<db, blacklist, gwBlacklist, sessions, resetKeys,
                            loggedOut>>
  /\ UNCHANGED <<wsVars, now, nticks, lockVars, limVars, redisClient, inflight>>

\* the same handler in two steps: up to User.findById (jwt.verify, GET
\* refresh_token:<id>, the comparison, the user row), and from generateJWT
\* on (SETEX of the new refresh token, the answer); other requests are
\* served in between
RefreshCheck(r) ==
  /\ r \in issuedR
  /\ IF RefreshOutcome(r) # 200
     THEN /\ resp' = Resp("refresh", r.uid, RefreshOutcome(r), "INVALID_REFRESH")
          /\ UNCHANGED inflight
     ELSE /\ FreeIds # {}
          /\ inflight' = inflight \cup
                {[op |-> "refresh", id |-> CHOOSE i \in FreeIds : TRUE,
                  r |-> r, at |-> now]}
          /\ UNCHANGED resp
  /\ UNCHANGED <<wsVars, now, nticks, authVars, lockVars, limVars, redisClient>>

RefreshResume(q) ==
  /\ q \in inflight /\ q.op = "refresh"
  /\ CanIssue
  /\ refreshKeys' = SetRefresh(q.r.uid, GenerateRefreshToken(q.r.uid), D7)
  /\ issuedA' = issuedA \cup {Hand(GenerateJWT(q.r.uid, H24))}
  /\ issuedR' = issuedR \cup {GenerateRefreshToken(q.r.uid)}
  /\ resp' = Resp("refresh", q.r.uid, 200, "OK")
  /\ inflight' = inflight \ {q}
  /\ UNCHANGED <<wsVars, now, nticks, db, blacklist, gwBlacklist, sessions, resetKeys,
                 loggedOut, lockVars, limVars, redisClient>>

\* a body without refreshToken
RefreshMissing ==
  /\ resp' = Resp("refresh", "none", 400, "MISSING_REFRESH_TOKEN")
  /\ UNCHANGED <<wsVars, now, nticks, authVars, lockVars, limVars, redisClient,
                 inflight>>

\* ------------------------------------------------------ UserController
\* AuthController's constructor binds register, login, logout and
\* refreshToken; UserController has no constructor and the routes pass
\* userController.<method> as a bare function, so inside these handlers
\* `this` is undefined and `this.invalidateAllUserSessions(...)` throws a
\* TypeError that the handler's catch turns into a 500
BoundMethods == {"register", "login", "logout", "refreshToken"}
ThisDefined(method) == method \in BoundMethods

\* invalidateAllUserSessions: the session scan, then DEL refresh_token:<id>
InvalidatedSessions(u) == RemoveUserSessions(sessions, u)
InvalidatedRefresh(u) == [refreshKeys EXCEPT ![u] = NoKey]

\* the call `await this.invalidateAllUserSessions(userId)` and the response
\* that follows it, inside handler `method`
InvalidateAndRespond(method, u) ==
  IF ThisDefined(method)
  THEN /\ sessions' = InvalidatedSessions(u)
       /\ refreshKeys' = InvalidatedRefresh(u)
       /\ resp' = Resp(method, u, 200, "OK")
  ELSE /\ UNCHANGED <<sessions, refreshKeys>>
       /\ resp' = Resp(method, u, 500, "SERVER_ERROR")

\* PUT /users/password: authenticateToken, then UserController.changePassword
ChangePassword(t, cur, new) ==
  /\ t \in Tokens
  /\ LET a == AuthenticateToken(t)
         u == t.uid
     IN
     IF a # "OK"
     THEN /\ resp' = Resp("changePassword", u, AuthStatus(a), a)
          /\ UNCHANGED <<authVars>>
     ELSE IF cur # db[u].pwd
     THEN /\ resp' = Resp("changePassword", u, 400, "INVALID_CURRENT")
          /\ UNCHANGED <<authVars>>
     ELSE IF new = Weak
     THEN /\ resp' = Resp("changePassword", u, 400, "WEAK_PASSWORD")
          /\ UNCHANGED <<authVars>>
     ELSE IF new = db[u].pwd
     THEN /\ resp' = Resp("changePassword", u, 400, "SAME_PASSWORD")
          /\ UNCHANGED <<authVars>>
     ELSE /\ db' = [db EXCEPT ![u].pwd = new, ![u].pca = now]
          /\ InvalidateAndRespond("changePassword", u)
          /\ UNCHANGED <<blacklist, gwBlacklist, resetKeys, issuedA, issuedR,
                         loggedOut>>
  /\ UNCHANGED <<wsVars, now, nticks, lockVars, limVars, redisClient, inflight>>

\* POST /auth/password/reset: UserController.requestPasswordReset.  The
\* random reset token is identified by the identity and the instant.
ResetHash(u) == <<"reset", u, now>>
RequestPasswordReset(u) ==
  /\ IF ~FindByEmail(u)
     THEN UNCHANGED <<authVars>>
     ELSE /\ db' = [db EXCEPT ![u].resetHash = ResetHash(u),
                              ![u].resetExpires = now + ResetTtl * MsPerSec]
          /\ resetKeys' = Put(resetKeys, Entry(ResetHash(u), ResetTtl, u))
          /\ UNCHANGED <<refreshKeys, blacklist, gwBlacklist, sessions,
                         issuedA, issuedR, loggedOut>>
  /\ resp' = Resp("requestPasswordReset", u, 200, "OK")
  /\ UNCHANGED <<wsVars, now, nticks, lockVars, limVars, redisClient, inflight>>

\* POST /auth/password/reset/confirm: UserController.confirmPasswordReset
ResetHashes == {x.key : x \in resetKeys} \cup
               {db[u].resetHash : u \in {v \in Users : db[v].resetHash # NoHash}}
ConfirmPasswordReset(h, new) ==
  /\ h \in ResetHashes
  /\ LET u == h[2] IN
     IF ~Has(resetKeys, h)
     THEN /\ resp' = Resp("confirmPasswordReset", u, 400, "INVALID_RESET")
          /\ UNCHANGED <<authVars>>
     ELSE IF \/ ~db[u].exists
             \/ db[u].resetHash # h
             \/ db[u].resetExpires < now
     THEN /\ resp' = Resp("confirmPasswordReset", u, 400, "INVALID_RESET")
          /\ UNCHANGED <<authVars>>
     ELSE IF new = Weak
     THEN /\ resp' = Resp("confirmPasswordReset", u, 400, "WEAK_PASSWORD")
          /\ UNCHANGED <<authVars>>
     ELSE /\ db' = [db EXCEPT ![u].pwd = new, ![u].pca = now,
                              ![u].resetHash = NoHash,
                              ![u].resetExpires = None]
          /\ resetKeys' = Del(resetKeys, h)
          /\ InvalidateAndRespond("confirmPasswordReset", u)
          /\ UNCHANGED <<blacklist, gwBlacklist, issuedA, issuedR, loggedOut>>
  /\ UNCHANGED <<wsVars, now, nticks, lockVars, limVars, redisClient, inflight>>

\* DELETE /users/account: authenticateToken, then UserController.deleteAccount
DeleteAccount(t, pw, confirmDeletion) ==
  /\ t \in Tokens
  /\ LET a == AuthenticateToken(t)
         u == t.uid
     IN
     IF a # "OK"
     THEN /\ resp' = Resp("deleteAccount", u, AuthStatus(a), a)
          /\ UNCHANGED <<authVars>>
     ELSE IF ~confirmDeletion
     THEN /\ resp' = Resp("deleteAccount", u, 400, "NOT_CONFIRMED")
          /\ UNCHANGED <<authVars>>
     ELSE IF pw # db[u].pwd
     THEN /\ resp' = Resp("deleteAccount", u, 400, "INVALID_PASSWORD")
          /\ UNCHANGED <<authVars>>
     ELSE /\ db' = [db EXCEPT ![u].active = FALSE, ![u].deleted = TRUE]
          /\ InvalidateAndRespond("deleteAccount", u)
          /\ UNCHANGED <<blacklist, gwBlacklist, resetKeys, issuedA, issuedR,
                         loggedOut>>
  /\ UNCHANGED <<wsVars, now, nticks, lockVars, limVars, redisClient, inflight>>

\* DELETE /users/sessions/:sessionId: authenticateToken, then
\* UserController.revokeSession: DEL session:<sessionId>
RevokeSession(t, sessionId) ==
  /\ t \in Tokens
  /\ LET a == AuthenticateToken(t) IN
     IF a # "OK"
     THEN /\ resp' = Resp("revokeSession", t.uid, AuthStatus(a), a)
          /\ UNCHANGED sessions
     ELSE /\ sessions' = Del(sessions, sessionId)
          /\ resp' = Resp("revokeSession", t.uid, 200, "OK")
  /\ UNCHANGED <<wsVars, now, nticks, db, refreshKeys, blacklist, gwBlacklist,
                 resetKeys, issuedA, issuedR, loggedOut, lockVars, limVars,
                 redisClient, inflight>>

\* GET /auth/profile: a route that only needs authenticateToken to pass
GetProfile(t) ==
  /\ t \in Tokens
  /\ resp' = Resp("getProfile", t.uid, AuthStatus(AuthenticateToken(t)),
                  AuthenticateToken(t))
  /\ UNCHANGED <<wsVars, now, nticks, authVars, lockVars, limVars, redisClient, inflight>>

\* ------------------------------------------------------------ API gateway
\* verifyToken: blacklist lookup under the gateway's own key prefix, then
\* jwt.verify (no user lookup)
VerifyToken(t) ==
  IF Has(gwBlacklist, t) THEN "TOKEN_REVOKED"
  ELSE IF JwtExpired(t) THEN "TOKEN_EXPIRED"
  ELSE "OK"

\* blacklistToken: ttl = decoded.exp - now (seconds); SETEX only if ttl > 0
GwRemaining(t) == t.exp - NowSec
BlacklistToken(t) ==
  IF GwRemaining(t) > 0
  THEN Put(gwBlacklist, Entry(t, GwRemaining(t), "true"))
  ELSE gwBlacklist

\* gateway POST /auth/logout: verifyToken, then blacklistToken(req.token)
GwLogout(t) ==
  /\ t \in Tokens
  /\ LET a == VerifyToken(t) IN
     IF a # "OK"
     THEN /\ resp' = Resp("gwLogout", t.uid, 401, a)
          /\ UNCHANGED gwBlacklist
     ELSE /\ gwBlacklist' = BlacklistToken(t)
          /\ resp' = Resp("gwLogout", t.uid, 200, "OK")
  /\ UNCHANGED <<wsVars, now, nticks, db, refreshKeys, blacklist, sessions, resetKeys,
                 issuedA, issuedR, loggedOut, lockVars, limVars, redisClient, inflight>>

\* review service authMiddleware: jwt.verify only
AuthMiddleware(t) == IF JwtExpired(t) THEN "TOKEN_EXPIRED" ELSE "OK"

\* a gateway route behind verifyToken
GwRequest(t) ==
  /\ t \in Tokens
  /\ resp' = Resp("gwRequest", t.uid,
                  IF VerifyToken(t) = "OK" THEN 200 ELSE 401, VerifyToken(t))
  /\ UNCHANGED <<wsVars, now, nticks, authVars, lockVars, limVars, redisClient, inflight>>

\* ------------------------------------------ verifiers and the store
\* the connection changes under the handlers' feet
SetStore(m) ==
  /\ m \in StoreModes /\ m # redisClient
  /\ redisClient' = m
  /\ UNCHANGED <<wsVars, now, nticks, authVars, lockVars, limVars, inflight, resp>>

\* verifyToken as the connection allows: the blacklist lookup is skipped when
\* the client is not ready; a failing call ends in the catch block (401)
VerifyTokenStore(t) ==
  IF redisClient = "throws" THEN "AUTH_ERROR"
  ELSE IF redisClient = "ready" /\ Has(gwBlacklist, t) THEN "TOKEN_REVOKED"
  ELSE IF JwtExpired(t) THEN "TOKEN_EXPIRED"
  ELSE "OK"

\* authenticateToken as the connection allows: redisClient.get is called
\* unguarded, its failure ends in the catch block (500)
AuthenticateTokenStore(t) ==
  IF redisClient # "ready" THEN "AUTH_FAILED" ELSE AuthenticateToken(t)
AuthStatusStore(code) == IF code = "AUTH_FAILED" THEN 500 ELSE AuthStatus(code)

\* a gateway route behind verifyToken, whatever the connection
GwRequestStore(t) ==
  /\ t \in Tokens
  /\ resp' = Resp("gwRequest", t.uid,
                  IF VerifyTokenStore(t) = "OK" THEN 200 ELSE 401,
                  VerifyTokenStore(t))
  /\ UNCHANGED <<wsVars, now, nticks, authVars, lockVars, limVars, redisClient, inflight>>

\* GET /auth/profile, whatever the connection
GetProfileStore(t) ==
  /\ t \in Tokens
  /\ resp' = Resp("getProfile", t.uid,
                  AuthStatusStore(AuthenticateTokenStore(t)),
                  AuthenticateTokenStore(t))
  /\ UNCHANGED <<wsVars, now, nticks, authVars, lockVars, limVars, redisClient, inflight>>

\* ---------------------------------------------------------- rateLimiter
\* the requests of the window a request falls in, this one included
SeenAligned(h, start) == IF h.n > 0 /\ h.start = start
                         THEN [h EXCEPT !.n = h.n + 1]
                         ELSE [start |-> start, n |-> 1]
SeenRolling(h, windowMs) == IF h.n > 0 /\ now - h.start < windowMs
                            THEN [h EXCEPT !.n = h.n + 1]
                            ELSE [start |-> now, n |-> 1]

\* a request of client u to a user-service route, past authenticateToken:
\* the rateLimiter middleware, the handler, and the finish handler
\* (the model stops counting a window's requests two beyond the route's max)
RateLimiter(u, route, expireOk) ==
  /\ SeenAligned(seen[route], WindowStart(route)).n <= Max(route) + 2
  /\ seen' = [seen EXCEPT ![route] = SeenAligned(seen[route], WindowStart(route))]
  /\ IF Requests(RedisKey(u, route)) >= Max(route)
     THEN /\ resp' = Resp(route, u, 429, "RATE_LIMIT_EXCEEDED")
          /\ UNCHANGED rl
     ELSE /\ resp' = Resp(route, u, 200, "next")
          /\ rl' = Finish(RedisKey(u, route), WindowMs(route), expireOk)
  /\ UNCHANGED <<wsVars, now, nticks, authVars, lockVars, gwrl, redisClient, inflight>>

\* a request of client u to a gateway route (app.use(rateLimiter.general))
GeneralLimiter(u, expireOk) ==
  /\ LiveCount(gwrl) < GwCap
  /\ seen' = [seen EXCEPT !["general"] = SeenRolling(seen["general"], GwWindowMs)]
  /\ gwrl' = RedisStoreIncrement(gwrl, expireOk)
  /\ resp' = IF Admits(TotalHits(gwrl'), GwMax)
             THEN Resp("general", u, 200, "next")
             ELSE Resp("general", u, 429, "RATE_LIMIT_EXCEEDED")
  /\ UNCHANGED <<wsVars, now, nticks, authVars, lockVars, rl, redisClient, inflight>>

\* the same middleware in two steps: the GET and the decision, and, once the
\* handler has answered, the finish handler's INCR and EXPIRE on the key
\* the request computed; other requests are served in between
InflightLimit(k) == {r \in inflight : r.op = "limit" /\ r.key = k}

RateLimiterDecide(u, route) ==
  /\ SeenAligned(seen[route], WindowStart(route)).n <= Max(route) + 2
  /\ seen' = [seen EXCEPT ![route] = SeenAligned(seen[route], WindowStart(route))]
  /\ IF Requests(RedisKey(u, route)) >= Max(route)
     THEN /\ resp' = Resp(route, u, 429, "RATE_LIMIT_EXCEEDED")
          /\ UNCHANGED inflight
     ELSE /\ FreeIds # {}
          /\ resp' = Resp(route, u, 200, "next")
          /\ inflight' = inflight \cup
                {[op |-> "limit", id |-> CHOOSE i \in FreeIds : TRUE,
                  route |-> route, key |-> RedisKey(u, route)]}
  /\ UNCHANGED <<wsVars, now, nticks, authVars, lockVars, rl, gwrl, redisClient>>

RateLimiterFinish(r) ==
  /\ r \in inflight /\ r.op = "limit"
  /\ rl' = Finish(r.key, WindowMs(r.route), TRUE)
  /\ inflight' = inflight \ {r}
  /\ UNCHANGED <<wsVars, now, nticks, authVars, lockVars, gwrl, seen, redisClient,
                 resp>>

\* ------------------------------------------------------- middleware order
\* a user-service route declared [authenticateToken, rateLimiter({...})],
\* handler: each middleware runs when the one before it calls next()
UserRoute(t, route, expireOk) ==
  /\ t \in Tokens
  /\ IF AuthenticateToken(t) # "OK"
     THEN /\ resp' = Resp(route, t.uid, AuthStatus(AuthenticateToken(t)),
                          AuthenticateToken(t))
          /\ UNCHANGED <<wsVars, now, nticks, authVars, lockVars, limVars, redisClient,
                         inflight>>
     ELSE RateLimiter(t.uid, route, expireOk)

\* a gateway route behind verifyToken: app.use(rateLimiter.general) runs
\* first, the route's verifyToken after it
GwRoute(t, expireOk) ==
  /\ t \in Tokens
  /\ LiveCount(gwrl) < GwCap
  /\ seen' = [seen EXCEPT !["general"] = SeenRolling(seen["general"], GwWindowMs)]
  /\ gwrl' = RedisStoreIncrement(gwrl, expireOk)
  /\ resp' = IF ~Admits(TotalHits(gwrl'), GwMax)
             THEN Resp("general", t.uid, 429, "RATE_LIMIT_EXCEEDED")
             ELSE IF VerifyToken(t) # "OK"
             THEN Resp("general", t.uid, 401, VerifyToken(t))
             ELSE Resp("general", t.uid, 200, "next")
  /\ UNCHANGED <<wsVars, now, nticks, authVars, lockVars, rl, redisClient, inflight>>

\* ------------------------------------------------ limiters and the store
\* rateLimiter's catch block: "En cas d'erreur Redis, laisser passer"
RateLimiterCatchRejects(u, route) == Resp(route, u, 429, "RATE_LIMIT_EXCEEDED")
RateLimiterCatch(u, route) == Resp(route, u, 200, "next")

\* the user-service rateLimiter whatever the connection: when GET fails the
\* catch block calls next() and no finish handler has been registered
RateLimiterStore(u, route, expireOk) ==
  IF redisClient = "ready" THEN RateLimiter(u, route, expireOk)
  ELSE /\ SeenAligned(seen[route], WindowStart(route)).n <= Max(route) + 2
       /\ seen' = [seen EXCEPT
                     ![route] = SeenAligned(seen[route], WindowStart(route))]
       /\ resp' = RateLimiterCatch(u, route)
       /\ UNCHANGED <<wsVars, now, nticks, authVars, lockVars, rl, gwrl, redisClient, inflight>>

\* RedisStore.increment when the client is not ready or INCR throws:
\* { totalHits: 1, timeToExpire: windowMs }
StoreDownHits(max) == 1

\* the gateway's general limiter whatever the connection
GeneralLimiterStore(u, expireOk) ==
  IF redisClient = "ready" THEN GeneralLimiter(u, expireOk)
  ELSE /\ SeenRolling(seen["general"], GwWindowMs).n < GwCap
       /\ seen' = [seen EXCEPT
                     !["general"] = SeenRolling(seen["general"], GwWindowMs)]
       /\ resp' = IF Admits(StoreDownHits(GwMax), GwMax)
                  THEN Resp("general", u, 200, "next")
                  ELSE Resp("general", u, 429, "RATE_LIMIT_EXCEEDED")
       /\ UNCHANGED <<wsVars, now, nticks, authVars, lockVars, rl, gwrl, redisClient, inflight>>

\* --------------------------------------------------- notification service
\* wss.on("connection"): a new socket, open, no userId
Connection(s) ==
  /\ wss[s].readyState = "NONE"
  /\ wss' = [wss EXCEPT ![s].readyState = "OPEN"]
  /\ UNCHANGED <<clients, notifications, channel, sent>>
  /\ UNCHANGED <<now, nticks, authVars, lockVars, limVars, redisClient,
                 inflight, resp>>

\* handleMessage(ws, {type: "auth", userId}): clients.set(userId, ws);
\* ws.userId = userId
HandleMessage(s, userId) ==
  /\ wss[s].readyState = "OPEN"
  /\ clients' = [clients EXCEPT ![userId] = s]
  /\ wss' = [wss EXCEPT ![s].userId = userId]
  /\ UNCHANGED <<notifications, channel, sent>>
  /\ UNCHANGED <<now, nticks, authVars, lockVars, limVars, redisClient,
                 inflight, resp>>

\* ws.on("close"): handleDisconnect(ws): clients.delete(ws.userId) if set
HandleDisconnect(s) ==
  IF wss[s].userId # NoUid THEN [clients EXCEPT ![wss[s].userId] = NoSock]
  ELSE clients

Close(s) ==
  /\ wss[s].readyState = "OPEN"
  /\ wss' = [wss EXCEPT ![s].readyState = "CLOSED"]
  /\ clients' = HandleDisconnect(s)
  /\ UNCHANGED <<notifications, channel, sent>>
  /\ UNCHANGED <<now, nticks, authVars, lockVars, limVars, redisClient,
                 inflight, resp>>

\* sendToUser: clients.get(userId) is there and its readyState is OPEN
SendToUser(userId) ==
  /\ clients[userId] # NoSock
  /\ wss[clients[userId]].readyState = "OPEN"

\* the ws.send calls for notification n after one more sendToUser(userId)
Delivered(n, userId) ==
  IF SendToUser(userId) THEN [sent EXCEPT ![n] = @ + 1] ELSE sent

\* createNotification: INSERT, sendToUser(userId, ...), PUBLISH
CreateNotification(userId) ==
  /\ Cardinality(notifications) < MaxNotifications
  /\ LET n == Cardinality(notifications) + 1 IN
       /\ notifications' = notifications \cup {[id |-> n, userId |-> userId]}
       /\ sent' = Delivered(n, userId)
       /\ channel' = channel \cup {[id |-> n, userId |-> userId]}
  /\ UNCHANGED <<wss, clients>>
  /\ UNCHANGED <<now, nticks, authVars, lockVars, limVars, redisClient,
                 inflight, resp>>

\* the callback of subClient.subscribe("notifications", ...) on a message
\* of the channel: sendToUser(notification.userId, notification)
SubscribeToRedis(m) ==
  /\ m \in channel
  /\ sent' = Delivered(m.id, m.userId)
  /\ channel' = channel \ {m}
  /\ UNCHANGED <<wss, clients, notifications>>
  /\ UNCHANGED <<now, nticks, authVars, lockVars, limVars, redisClient,
                 inflight, resp>>

\* ------------------------------------------------------------------ Spec
\* The token / session lifecycle of the user service's AuthController.
\* Login is taken with the account's password here; wrong passwords are the
\* subject of SpecLock.  Two handlers in the same millisecond need no Tick.
Next ==
  \/ \E d \in Steps : Tick(d)
  \/ \E u \in Users : Register(u, "p1")
  \/ \E u \in Users, rm \in BOOLEAN, ip \in Ips : Login(u, db[u].pwd, rm, ip)
  \/ \E t \in Tokens : Logout(t)
  \/ \E r \in issuedR : Refresh(r)
  \/ \E t \in Tokens : GetProfile(t)

Spec == Init /\ [][Next]_vars

\* -------------------------------------------------------- SpecRevocation
\* One identity's tokens revoked through either service: the user service's
\* logout and the gateway's logout
NextRevocation ==
  \/ \E d \in Steps : Tick(d)
  \/ Register("u1", "p1")
  \/ \E rm \in BOOLEAN, ip \in Ips : Login("u1", db["u1"].pwd, rm, ip)
  \/ \E t \in Tokens : Logout(t)
  \/ \E t \in Tokens : GwLogout(t)
  \/ \E t \in Tokens : GwRequest(t)

SpecRevocation == Init /\ [][NextRevocation]_vars

\* -------------------------------------------------------------- SpecUser
\* One identity's credential changes: UserController behind authenticateToken
NextUser ==
  \/ \E d \in StepsUser : Tick(d)
  \/ Register("u1", "p1")
  \/ \E rm \in BOOLEAN, ip \in Ips : Login("u1", db["u1"].pwd, rm, ip)
  \/ \E t \in Tokens, cur \in Passwords, new \in Passwords \cup {Weak} :
       ChangePassword(t, cur, new)
  \/ RequestPasswordReset("u1")
  \/ \E h \in ResetHashes, new \in Passwords \cup {Weak} :
       ConfirmPasswordReset(h, new)
  \/ \E t \in Tokens, pw \in Passwords, c \in BOOLEAN : DeleteAccount(t, pw, c)

SpecUser == Init /\ [][NextUser]_vars

\* -------------------------------------------------------------- SpecLock
\* two registered accounts and one origin: u1's logins with either password,
\* u2's with a wrong one
InitLock ==
  /\ now = 0 /\ nticks = 0
  /\ db = [u \in Users |-> [NoUser EXCEPT !.exists = TRUE, !.active = TRUE]]
  /\ refreshKeys = [u \in Users |-> NoKey]
  /\ blacklist = {} /\ gwBlacklist = {} /\ sessions = {} /\ resetKeys = {}
  /\ issuedA = {} /\ issuedR = {} /\ loggedOut = {}
  /\ failedUser = [u \in Users |-> NoCount]
  /\ failedIp = [i \in Ips |-> NoCount]
  /\ streak = [u \in Users |-> NoStreak]
  /\ rl = {} /\ gwrl = NoCount
  /\ seen = [l \in Limiters |-> NoSeen]
  /\ redisClient = "ready"
  /\ inflight = {}
  /\ InitWs
  /\ resp = NoResp

NextLock ==
  \/ \E d \in StepsLock : Tick(d)
  \/ \E pw \in Passwords, ip \in Ips : Login("u1", pw, FALSE, ip)
  \/ \E ip \in Ips : Login("u2", "p2", FALSE, ip)

SpecLock == InitLock /\ [][NextLock]_vars

\* ----------------------------------------------------------- SpecLimiter
\* one client, requests one after another, the counter store answering
NextLimiter ==
  \/ \E d \in StepsLimiter : Tick(d)
  \/ \E route \in Routes : RateLimiter("u1", route, TRUE)
  \/ GeneralLimiter("u1", TRUE)

SpecLimiter == Init /\ [][NextLimiter]_vars

\* ----------------------------------------------------- SpecLimiterFaulty
\* one route of each service, where an EXPIRE call may fail
NextLimiterFaulty ==
  \/ \E d \in StepsLimiter : Tick(d)
  \/ \E ok \in BOOLEAN : RateLimiter("u1", "password", ok)
  \/ \E ok \in BOOLEAN : GeneralLimiter("u1", ok)

SpecLimiterFaulty == Init /\ [][NextLimiterFaulty]_vars

\* -------------------------------------------------------------- SpecStore
\* one identity's tokens, both logouts while the store answers, and both
\* verifiers whatever the state of the connection
NextStore ==
  \/ \E d \in Steps : Tick(d)
  \/ \E m \in StoreModes : SetStore(m)
  \/ redisClient = "ready" /\ Register("u1", "p1")
  \/ redisClient = "ready" /\ \E t \in Tokens : Logout(t)
  \/ redisClient = "ready" /\ \E t \in Tokens : GwLogout(t)
  \/ \E t \in Tokens : GwRequestStore(t)
  \/ \E t \in Tokens : GetProfileStore(t)

SpecStore == Init /\ [][NextStore]_vars

\* ------------------------------------------------------ SpecLimiterStore
\* one route of each service while the connection comes and goes
NextLimiterStore ==
  \/ \E d \in StepsLimiter : Tick(d)
  \/ \E m \in StoreModes : SetStore(m)
  \/ RateLimiterStore("u1", "password", TRUE)
  \/ GeneralLimiterStore("u1", TRUE)

SpecLimiterStore == Init /\ [][NextLimiterStore]_vars

\* ----------------------------------------------------------- SpecRefresh
\* one identity's refresh tokens: handed out by register, login and refresh,
\* dropped by logout, outlived by their 7 days, or left behind by an
\* account deletion
NextRefresh ==
  \/ \E d \in StepsRefresh : Tick(d)
  \/ Register("u1", "p1")
  \/ \E rm \in BOOLEAN, ip \in Ips : Login("u1", db["u1"].pwd, rm, ip)
  \/ \E t \in Tokens : Logout(t)
  \/ \E t \in Tokens : DeleteAccount(t, db["u1"].pwd, TRUE)
  \/ \E r \in issuedR : Refresh(r)
  \/ RefreshMissing

SpecRefresh == Init /\ [][NextRefresh]_vars

\* ---------------------------------------------------------- SpecVerifier
\* one identity's access tokens before authenticateToken, while the
\* identity logs out, changes its password, deletes its account, and the
\* tokens run out
NextVerifier ==
  \/ \E d \in StepsVerifier : Tick(d)
  \/ Register("u1", "p1")
  \/ \E ip \in Ips : Login("u1", db["u1"].pwd, FALSE, ip)
  \/ \E t \in Tokens : Logout(t)
  \/ \E t \in Tokens, new \in Passwords : ChangePassword(t, db["u1"].pwd, new)
  \/ \E t \in Tokens : DeleteAccount(t, db["u1"].pwd, TRUE)
  \/ \E t \in Tokens : GetProfile(t)

SpecVerifier == Init /\ [][NextVerifier]_vars

\* --------------------------------------------------------- SpecLockFrame
\* every outcome of POST /auth/login: u1 registered and active, u2 either
\* not registered or disabled
InitLockFrame ==
  /\ now = 0 /\ nticks = 0
  /\ \E a \in BOOLEAN :
       db = [u \in Users |->
               IF u = "u1" THEN [NoUser EXCEPT !.exists = TRUE, !.active = TRUE]
               ELSE [NoUser EXCEPT !.exists = a]]
  /\ refreshKeys = [u \in Users |-> NoKey]
  /\ blacklist = {} /\ gwBlacklist = {} /\ sessions = {} /\ resetKeys = {}
  /\ issuedA = {} /\ issuedR = {} /\ loggedOut = {}
  /\ failedUser = [u \in Users |-> NoCount]
  /\ failedIp = [i \in Ips |-> NoCount]
  /\ streak = [u \in Users |-> NoStreak]
  /\ rl = {} /\ gwrl = NoCount
  /\ seen = [l \in Limiters |-> NoSeen]
  /\ redisClient = "ready"
  /\ inflight = {}
  /\ InitWs
  /\ resp = NoResp

NextLockFrame ==
  \/ \E d \in StepsLock : Tick(d)
  \/ \E pw \in Passwords, ip \in Ips : Login("u1", pw, FALSE, ip)
  \/ \E ip \in Ips : Login("u2", "p1", FALSE, ip)
  \/ \E u \in Users, ip \in Ips : LoginInvalid(u, ip)

SpecLockFrame == InitLockFrame /\ [][NextLockFrame]_vars

\* ------------------------------------------------------------ SpecRoutes
\* one registered identity's tokens, live and expired, presented to a route
\* of each service that is both rate-limited and authenticated
NextRoutes ==
  \/ \E d \in Steps : Tick(d)
  \/ \E ip \in Ips : Login("u1", db["u1"].pwd, FALSE, ip)
  \/ \E t \in Tokens : UserRoute(t, "account", TRUE)
  \/ \E t \in Tokens : GwRoute(t, TRUE)

SpecRoutes == InitLock /\ [][NextRoutes]_vars

\* ------------------------------------------------------------ SpecNotify
\* one instance of the notification service: sockets connect, authenticate
\* and close, notifications are created and the channel's messages arrive
NextNotify ==
  \/ \E s \in Socks : Connection(s)
  \/ \E s \in Socks, u \in Users : HandleMessage(s, u)
  \/ \E s \in Socks : Close(s)
  \/ \E u \in Users : CreateNotification(u)
  \/ \E m \in channel : SubscribeToRedis(m)

SpecNotify == Init /\ [][NextNotify]_vars

\* ---------------------------------------------------------- SpecSessions
\* two registered identities, their logins and logouts, and session
\* revocations naming any stored session
SessionIds == {e.key : e \in sessions}
NextSessions ==
  \/ \E d \in Steps : Tick(d)
  \/ \E u \in Users, ip \in Ips : Login(u, db[u].pwd, FALSE, ip)
  \/ \E t \in Tokens : Logout(t)
  \/ \E t \in Tokens, sid \in SessionIds : RevokeSession(t, sid)

SpecSessions == InitLock /\ [][NextSessions]_vars

\* -------------------------------------------------- SpecRefreshInterleaved
\* one identity's refreshes and logouts, a request arriving while a refresh
\* is between its check and its write
NextRefreshInterleaved ==
  \/ \E d \in Steps : Tick(d)
  \/ Register("u1", "p1")
  \/ \E t \in Tokens : Logout(t)
  \/ \E r \in issuedR : RefreshCheck(r)
  \/ \E q \in inflight : RefreshResume(q)

SpecRefreshInterleaved == Init /\ [][NextRefreshInterleaved]_vars

\* -------------------------------------------------- SpecLimiterInterleaved
\* one client's requests to PUT /users/password and to the gateway, the
\* next request arriving before the last one has finished
NextLimiterInterleaved ==
  \/ \E d \in StepsLimiter : Tick(d)
  \/ RateLimiterDecide("u1", "password")
  \/ \E r \in inflight : RateLimiterFinish(r)
  \/ GeneralLimiter("u1", TRUE)

SpecLimiterInterleaved == Init /\ [][NextLimiterInterleaved]_vars

\* ------------------------------------------------------ SpecLockInterleaved
\* one registered account's logins, the guard and the handler of a request
\* interleaved with those of other requests
NextLockInterleaved ==
  \/ \E d \in StepsLock : Tick(d)
  \/ \E pw \in Passwords, ip \in Ips : LoginGuard("u1", pw, ip)
  \/ \E r \in inflight : LoginResume(r)

SpecLockInterleaved == InitLock /\ [][NextLockInterleaved]_vars

\* ================================================================ claims

SessionsOf(u) == {x \in sessions : Live(x) /\ x.val = u}
AcceptedRefresh(u) == {r \in issuedR : r.uid = u /\ RefreshOutcome(r) = 200}
C9_OneRefreshToken ==
  /\ \A u \in Users : Cardinality(AcceptedRefresh(u)) <= 1
  /\ \A r \in issuedR : r # refreshKeys[r.uid].val => RefreshOutcome(r) = 401
  /\ \A u \in Users : refreshKeys[u].val # NoTok => refreshKeys[u].val \in issuedR
\* an identity with two different refresh tokens handed out, both unexpired,
\* the later one accepted
C9_Witness ==
  \E r1, r2 \in issuedR :
     /\ r1.uid = r2.uid /\ r1.iat < r2.iat
     /\ ~JwtExpired(r1)
     /\ RefreshOutcome(r2) = 200
     /\ resp.uid = r1.uid /\ resp.op \in {"login", "refresh"}
     /\ resp.status = 200

\* ------------------------------------------------------------------ C10
\* C10: every revocation entry, written by the gateway's blacklistToken or
\* by the user service's logout, has a TTL equal to the token's remaining
\* lifetime (exp - now, in seconds) at the moment it was written.
RemainingAt(e) == e.key.exp - e.setAt \div MsPerSec
CredentialsUpdated(u) == /\ db[u].exists
                         /\ \/ db'[u].pwd # db[u].pwd
                            \/ db'[u].pca # db[u].pca
                            \/ db'[u].active # db[u].active
C2_RevokeAllOnCredentialChange ==
  [][\A u \in Users : CredentialsUpdated(u) =>
        /\ {x \in sessions' : x.val = u} = {}
        /\ refreshKeys'[u] = NoKey]_vars

\* ------------------------------------------------------------------- C3
\* C3: a token handed out at t0 is rejected at every instant after a
\* password change at t1 > t0 (compared in milliseconds).
C3_StaleTokenRejected ==
  \A h \in issuedA :
     (/\ db[h.tok.uid].pca # None
      /\ h.at < db[h.tok.uid].pca
      /\ now > db[h.tok.uid].pca) => AuthenticateToken(h.tok) # "OK"

\* ------------------------------------------------------------------- C5
\* C5: after 5 consecutive password mismatches for one identity, each within
\* the 15-minute window of the one before, checkFailedAttempts rejects the
\* identity's next attempt with 429 ACCOUNT_LOCKED before any password is
\* looked at, while another identity that is not itself locked is still
\* admitted from the same origin as long as the origin counter is below 10.
WindowRuns(u) == now - streak[u].last < 15 * 60 * 1000
RunOf(u) == IF WindowRuns(u) THEN streak[u].n ELSE 0
C5_LockAfterFive ==
  \A u \in Users, ip \in Ips :
     /\ RunOf(u) >= 5 => CheckFailedAttempts(u, ip) = "ACCOUNT_LOCKED"
     /\ (RunOf(u) < 5 /\ LiveCount(failedIp[ip]) < 10)
           => CheckFailedAttempts(u, ip) = "next"
     /\ (resp.op = "login" /\ resp.code = "ACCOUNT_LOCKED") => resp.status = 429
\* u1 was rejected as locked after a run of 5 while u2 is still admitted with
\* the origin counter at 5 or more
C5_Witness ==
  /\ RunOf("u1") >= 5
  /\ resp = Resp("login", "u1", 429, "ACCOUNT_LOCKED")
  /\ \E ip \in Ips : /\ LiveCount(failedIp[ip]) >= 5
                     /\ CheckFailedAttempts("u2", ip) = "next"

\* ------------------------------------------------------------------- C6
\* C6: no failed_attempts counter is ever without an expiry; 15 minutes after
\* the last recorded failure the counters are gone and the guard admits the
\* identity; and a login with the correct password then answers 200 with
\* fresh tokens and a new session record.
Quiet(u) == streak[u].n > 0 => ~WindowRuns(u)
C6_CountersExpire ==
  /\ \A u \in Users : failedUser[u].n > 0 => failedUser[u].ttl = 15 * 60
  /\ \A ip \in Ips : failedIp[ip].n > 0 => failedIp[ip].ttl = 15 * 60
  /\ \A u \in Users : Quiet(u) => LiveCount(failedUser[u]) = 0
  /\ (\A u \in Users : Quiet(u)) =>
        \A v \in Users, ip \in Ips : /\ LiveCount(failedIp[ip]) = 0
                                     /\ CheckFailedAttempts(v, ip) = "next"
C6_LoginAfterWindow ==
  \A u \in Users, ip \in Ips :
     ((\A v \in Users : Quiet(v)) /\ Login(u, db[u].pwd, FALSE, ip)) =>
        /\ resp' = Resp("login", u, 200, "OK")
        /\ \E h \in issuedA' : /\ h.tok.uid = u /\ h.at = now
                               /\ Has(sessions', Sha256(h.tok))
        /\ refreshKeys'[u].val \in issuedR'
        /\ refreshKeys'[u].setAt = now
C6_LockClears == []C6_CountersExpire /\ [][C6_LoginAfterWindow]_vars
\* a login answered 200 that ended a run of 5 mismatches, with its session
C6_Witness ==
  \E u \in Users :
     /\ resp = Resp("login", u, 200, "OK")
     /\ streak[u].ended >= 5
     /\ SessionsOf(u) # {}

\* ------------------------------------------------------------------- C7
\* C7: for each limiter (client, route class) and requests one after another,
\* a request is rejected with 429 exactly when it is beyond the max-th
\* request of its window for that limiter.
C7_FirstMaxAdmitted ==
  \A l \in Limiters :
     (resp.op = l /\ seen[l].n > 0) =>
         (resp.status = 429 <=> seen[l].n > LimMax(l))

\* ------------------------------------------------------------------- C8
\* C8: in every reachable state, also after a failed or skipped EXPIRE, every
\* rate-limit counter key in the store carries an expiry of at most one
\* window length.
C8_CountersCarryExpiry ==
  /\ \A e \in rl : e.ttl # None /\ e.ttl <= 60 * 60
  /\ gwrl.n > 0 => (gwrl.ttl # None /\ gwrl.ttl <= 15 * 60)

\* ------------------------------------------------------------------ C11
\* C11: while the revocation store is not connected or its calls fail,
\* neither verifyToken nor authenticateToken admits a request.
C11_VerifiersFailClosed ==
  [][(redisClient # "ready" /\ resp' # resp
        /\ resp'.op \in {"gwRequest", "getProfile"}) => resp'.status # 200]_vars

\* ------------------------------------------------------------------ C12
\* C12: a request that finds the counter store not ready, or one of whose
\* store calls throws, is not answered 429 by either limiter.
C12_LimitersFailOpen ==
  [][(resp' # resp /\ resp'.op \in Limiters /\ redisClient # "ready")
        => resp'.status = 200]_vars
\* a request admitted beyond the max of its window while the store is down
C12_Witness ==
  \E l \in Limiters : /\ redisClient # "ready"
                      /\ resp.op = l /\ resp.status = 200
                      /\ seen[l].n > LimMax(l)

\* ------------------------------------------------------------------ C13
\* C13: a token blacklisted by a logout in either service is rejected as
\* revoked by the verifier of every service: the gateway's verifyToken, the
\* user service's authenticateToken and the review service's authMiddleware.
Blacklisted == {e.key : e \in {x \in blacklist \cup gwBlacklist : Live(x)}}
C13_RevocationShared ==
  \A t \in Blacklisted :
     /\ VerifyToken(t) = "TOKEN_REVOKED"
     /\ AuthenticateToken(t) = "TOKEN_REVOKED"
     /\ AuthMiddleware(t) = "TOKEN_REVOKED"

\* ------------------------------------------------------------------ C14
\* C14: while failed_attempts:user:<id> is at or above 5 and has not
\* expired, no step of any login request deletes or lowers it.
C14_LockClearedOnlyByTtl ==
  [][\A u \in Users :
        (LiveCount(failedUser[u]) >= 5 /\ now' = now)
           => failedUser'[u].n >= failedUser[u].n]_vars

\* ------------------------------------------------------------------ C15
\* the window counter a request of client u to limiter l is counted in
WindowCounter(u, l) == IF l = "general" THEN LiveCount(gwrl)
                       ELSE Requests(RedisKey(u, l))

\* C15: every request that reaches a limiter, admitted or rejected, raises
\* the limiter's window counter by one.
C15_EveryRequestCounted ==
  [][\A l \in Limiters, u \in Users :
        (seen'[l] # seen[l] /\ resp'.uid = u)
           => WindowCounter(u, l)' = WindowCounter(u, l) + 1]_vars

\* the gateway's half of C15 alone
C15_GatewayCountsEvery ==
  [][seen'["general"] # seen["general"]
        => LiveCount(gwrl)' = LiveCount(gwrl) + 1]_vars

\* ------------------------------------------------------------------ C16
\* the rejections of the token verifiers
VerifierCodes == {"TOKEN_REVOKED", "TOKEN_EXPIRED", "USER_NOT_FOUND",
                  "ACCOUNT_DISABLED", "PASSWORD_CHANGED"}

\* C16: a request that a route's token verifier rejects has been through
\* the route's limiter first (the limiter has counted it).
C16_LimiterBeforeVerifier ==
  [][\A l \in Limiters :
        (resp' # resp /\ resp'.op = l /\ resp'.code \in VerifierCodes)
           => seen'[l] # seen[l]]_vars

\* the gateway's half of C16 alone
C16_GatewayLimiterFirst ==
  [][(resp' # resp /\ resp'.op = "general" /\ resp'.code \in VerifierCodes)
        => seen'["general"] # seen["general"]]_vars

\* ------------------------------------------------------------------ C17
\* a step of POST /auth/login for email u from origin ip
LoginStep(u, ip) ==
  \/ \E pw \in Passwords : Login(u, pw, FALSE, ip)
  \/ LoginInvalid(u, ip)

OtherCountersUnchanged(u, ip) ==
  /\ \A v \in Users \ {u} : failedUser'[v] = failedUser[v]
  /\ \A j \in Ips \ {ip} : failedIp'[j] = failedIp[j]

\* C17: a login answered INCORRECT_PASSWORD adds one to the identity's and
\* the origin's counter, a login answered 200 deletes both, every other
\* login leaves the counters as they were; and a login the guard refuses is
\* answered 429 whatever its password.
C17_CountersFrame ==
  [][\A u \in Users, ip \in Ips :
        LoginStep(u, ip) =>
          /\ OtherCountersUnchanged(u, ip)
          /\ resp'.code = "INCORRECT_PASSWORD" =>
               /\ LiveCount(failedUser[u])' = LiveCount(failedUser[u]) + 1
               /\ LiveCount(failedIp[ip])' = LiveCount(failedIp[ip]) + 1
          /\ resp'.code = "OK" =>
               /\ failedUser'[u] = NoCount
               /\ failedIp'[ip] = NoCount
          /\ resp'.code \notin {"INCORRECT_PASSWORD", "OK"} =>
               /\ failedUser' = failedUser
               /\ failedIp' = failedIp
               /\ resp'.code \in {"USER_NOT_FOUND", "ACCOUNT_DISABLED",
                                  "VALIDATION_ERROR", "ACCOUNT_LOCKED",
                                  "IP_BLOCKED"}
          /\ CheckFailedAttempts(u, ip) # "next" => resp'.status = 429]_vars

\* a body refused by validation while u1's counter stands at a positive
\* value, after an earlier success had deleted the counters
C17_Witness ==
  /\ resp = Resp("login", "u1", 400, "VALIDATION_ERROR")
  /\ LiveCount(failedUser["u1"]) > 0
  /\ streak["u1"].ended > 0

\* ------------------------------------------------------------------ C18
\* the conditions of a refresh: the token verifies, it is the value stored
\* under refresh_token:<identity>, the identity exists and is active
RefreshConditions(r) ==
  /\ ~JwtExpired(r)
  /\ refreshKeys[r.uid].val = r
  /\ db[r.uid].exists /\ db[r.uid].active

\* C18: POST /auth/refresh answers 200 and hands out a new access token and
\* a new stored refresh token when the three conditions hold; otherwise it
\* answers 400 or 401 and the stored refresh token stays as it was.
C18_RefreshOnlyIfValid ==
  [][/\ \A r \in issuedR :
          Refresh(r) =>
            IF RefreshConditions(r)
            THEN /\ resp'.status = 200
                 /\ refreshKeys'[r.uid].val \in issuedR'
                 /\ refreshKeys'[r.uid].setAt = now
                 /\ \E h \in issuedA' : h.tok.uid = r.uid /\ h.at = now
            ELSE /\ resp'.status \in {400, 401}
                 /\ refreshKeys' = refreshKeys
                 /\ issuedA' = issuedA /\ issuedR' = issuedR
     /\ RefreshMissing => /\ resp'.status = 400
                          /\ refreshKeys' = refreshKeys]_vars

\* a refresh answered 401 for the stored, unexpired token of an identity
\* that is no longer active
C18_Witness ==
  \E r \in issuedR :
     /\ ~JwtExpired(r) /\ refreshKeys[r.uid].val = r
     /\ ~db[r.uid].active
     /\ resp.op = "refresh" /\ resp.uid = r.uid /\ resp.status = 401

\* ------------------------------------------------------------------ C19
\* the lifetime of the access token a login issues
TokenExpiry(rememberMe) == IF rememberMe THEN D7 ELSE H24

\* C19: a successful login leaves a session record under the hash of the
\* access token it returns, set to expire after the token's own lifetime.
C19_SessionTtlIsTokenExpiry ==
  [][\A u \in Users, rm \in BOOLEAN, ip \in Ips :
        (Login(u, db[u].pwd, rm, ip) /\ resp'.status = 200) =>
           \E e \in sessions' :
              /\ e.key = Sha256(GenerateJWT(u, TokenExpiry(rm)))
              /\ e.setAt = now
              /\ e.ttl = TokenExpiry(rm)]_vars

\* ------------------------------------------------------------------ C20
\* the checks of the token verifier, each on its own
Revoked(t) == \E e \in blacklist : e.key = t /\ Live(e)
IdentityExists(t) == db[t.uid].exists
IdentityActive(t) == db[t.uid].active
Stale(t) == db[t.uid].pca # None /\ t.iat < db[t.uid].pca \div MsPerSec

\* C20: authenticateToken reports the first failing check in the order
\* revocation, expiry, identity exists, identity active, password change;
\* a blacklisted and expired token is reported revoked, an expired token of
\* a deleted identity is reported expired.
C20_FirstFailingCheck ==
  [][\A t \in Tokens :
        GetProfile(t) =>
          /\ Revoked(t) => resp'.code = "TOKEN_REVOKED"
          /\ (~Revoked(t) /\ JwtExpired(t)) => resp'.code = "TOKEN_EXPIRED"
          /\ (~Revoked(t) /\ ~JwtExpired(t) /\ ~IdentityExists(t))
                => resp'.code = "USER_NOT_FOUND"
          /\ (~Revoked(t) /\ ~JwtExpired(t) /\ IdentityExists(t)
                /\ ~IdentityActive(t)) => resp'.code = "ACCOUNT_DISABLED"
          /\ (~Revoked(t) /\ ~JwtExpired(t) /\ IdentityExists(t)
                /\ IdentityActive(t) /\ Stale(t))
                => resp'.code = "PASSWORD_CHANGED"
          /\ (~Revoked(t) /\ ~JwtExpired(t) /\ IdentityExists(t)
                /\ IdentityActive(t) /\ ~Stale(t)) => resp'.status = 200]_vars

\* the identity's tokens all blacklisted and expired, one of them just
\* reported revoked
C20_Witness ==
  /\ resp.op = "getProfile" /\ resp.code = "TOKEN_REVOKED"
  /\ \E t \in Tokens : t.uid = resp.uid
  /\ \A t \in Tokens : t.uid = resp.uid => Revoked(t) /\ JwtExpired(t)

\* an expired token of a deleted identity just reported expired
C20_WitnessDeleted ==
  /\ resp.op = "getProfile" /\ resp.code = "TOKEN_EXPIRED"
  /\ db[resp.uid].deleted
  /\ \E t \in Tokens : t.uid = resp.uid
  /\ \A t \in Tokens : t.uid = resp.uid => ~Revoked(t) /\ JwtExpired(t)

C22_MissingCredentials400 ==
  [][\A u \in Users, ip \in Ips :
        LoginInvalid(u, ip) => /\ resp'.status = 400
                               /\ failedUser' = failedUser
                               /\ failedIp' = failedIp]_vars

\* ------------------------------------------------------------------ C23
\* the requests a limiter admitted under key k: those counted and those
\* whose finish handler has not run yet
AdmittedUnder(k) == Requests(k) + Cardinality(InflightLimit(k))

\* C23: whatever the interleaving, no more than max requests are admitted
\* under one window key of the user-service limiter, and the gateway admits
\* no request beyond the max-th of its window.
C23_AdmittedWithinMax ==
  /\ \A u \in Users : AdmittedUnder(RedisKey(u, "password")) <= Max("password")
  /\ (resp.op = "general" /\ resp.status = 200) => LiveCount(gwrl) <= GwMax

\* the gateway's half of C23 alone
C23_GatewayWithinMax ==
  (resp.op = "general" /\ resp.status = 200) => LiveCount(gwrl) <= GwMax

\* ------------------------------------------------------------------ C24
\* the identity of the in-flight refresh q has logged out since q's check
LoggedOutSince(q) ==
  \E e \in blacklist : e.key.uid = q.r.uid /\ Live(e) /\ e.setAt >= q.at

PastChecks == {q \in inflight : q.op = "refresh"}

C26_AtMostFiveVerifications ==
  \A u \in Users : LiveCount(failedUser[u]) <= 5 /\ streak[u].n <= 5

\* ------------------------------------------------------------------ C27
\* what a credential change may touch of an identity's row
Credentials(u) == <<db[u].pwd, db[u].pca, db[u].active>>

\* C27: a changePassword, confirmPasswordReset or deleteAccount answered
\* with an error status leaves every identity's password, its
\* password_changed_at and its active flag as they were.
C27_ErrorLeavesCredentials ==
  [][(/\ resp' # resp
      /\ resp'.op \in {"changePassword", "confirmPasswordReset", "deleteAccount"}
      /\ resp'.status >= 400)
        => \A u \in Users : Credentials(u)' = Credentials(u)]_vars

\* ------------------------------------------------------------------ C28
\* C28: a session revocation leaves in place every session record whose
\* user_id is not the caller.
C28_RevokesOnlyOwnSessions ==
  [][\A t \in Tokens, sid \in SessionIds :
        RevokeSession(t, sid) =>
           \A e \in sessions : e.val # t.uid => e \in sessions']_vars

\* ------------------------------------------------------------------ C29
\* the open sockets whose last auth message named userId
OpenSocketsOf(userId) ==
  {s \in Socks : wss[s].readyState = "OPEN" /\ wss[s].userId = userId}

\* C29: a user with an open socket whose last auth message named the user
\* is reachable through the clients map: sendToUser delivers.
C29_OpenSocketReachable ==
  \A u \in Users : OpenSocketsOf(u) # {} => SendToUser(u)

\* the last part of C29 alone: the map holds no closed socket
C29_NoEntryForClosedSocket ==
  \A u \in Users :
     clients[u] # NoSock => wss[clients[u]].readyState = "OPEN"

\* ------------------------------------------------------------------ C30
\* C30: no notification is carried by more than one ws.send.
C30_SentAtMostOnce ==
  \A n \in 1..MaxNotifications : sent[n] <= 1

====
